---- MODULE Spec2Model ----
(***************************************************************************)
(* A model of app.py: the POST /query handler (query_endpoint) that turns  *)
(* a prompt into a GraphQL query, validates it, retries once with the      *)
(* validation errors as feedback and executes it; and of the two pure      *)
(* helpers summarize_schema and get_type_name.                             *)
(*                                                                         *)
(* JSON values are modelled structurally.  A key that is missing from a    *)
(* JSON object is ABSENT, a key whose value is JSON null is NULL.  A text  *)
(* with line breaks is the sequence of its lines.                          *)
(***************************************************************************)
EXTENDS Integers, Sequences, FiniteSets, TLC

ABSENT == "<absent>"
NULL == "<null>"

\* Bounds of the model.
MaxDepth == 3
MaxTypes == 2

\* t.get("fields", [])[:5]
FieldCutoff == 5

Ok(v) == [ok |-> TRUE, val |-> v, err |-> ""]
Raise(msg) == [ok |-> FALSE, val |-> "", err |-> msg]

AttributeErrorGet == "'NoneType' object has no attribute 'get'"

RECURSIVE Join(_, _)
\* sep.join(strs)
Join(strs, sep) ==
  IF strs = <<>> THEN ""
  ELSE IF Len(strs) = 1 THEN strs[1]
  ELSE strs[1] \o sep \o Join(Tail(strs), sep)

\* seq[:n]
Take(seq, n) == SubSeq(seq, 1, IF Len(seq) < n THEN Len(seq) ELSE n)

\* Python truthiness of the value of a "name" key.
Falsy(v) == v \in {ABSENT, NULL, ""}

(***************************************************************************)
(* A TypeReference is a chain of JSON objects linked by "ofType".  nodes   *)
(* holds the value of the "name" key of each object of the chain, in       *)
(* order; tail says how the chain ends: the last object has no "ofType"    *)
(* key ("absent") or its "ofType" is null ("null").  With no nodes at all  *)
(* the reference itself is the missing key or the null.                    *)
(***************************************************************************)
TypeRefs(names, depth) ==
  [nodes : UNION {[1..n -> names] : n \in 0..depth}, tail : {"absent", "null"}]

\* type_obj at position pos of the chain is a non-empty dict.
IsDict(ref, pos) == pos <= Len(ref.nodes)
\* type_obj at position pos is None (a null "type" or "ofType").
IsNone(ref, pos) == pos > Len(ref.nodes) /\ ref.tail = "null"
\* type_obj.get("name")
NameAt(ref, pos) == IF IsDict(ref, pos) THEN ref.nodes[pos] ELSE ABSENT

\* while type_obj and not type_obj.get("name")
LoopCond(ref, pos) == IsDict(ref, pos) /\ Falsy(NameAt(ref, pos))

\* return type_obj.get("name") or "Unknown"
ReturnName(ref, pos) ==
  IF IsNone(ref, pos) THEN Raise(AttributeErrorGet)
  ELSE IF Falsy(NameAt(ref, pos)) THEN Ok("Unknown")
  ELSE Ok(NameAt(ref, pos))

RECURSIVE Unwrap(_, _)
Unwrap(ref, pos) ==
  IF LoopCond(ref, pos) THEN Unwrap(ref, pos + 1) ELSE ReturnName(ref, pos)

get_type_name(ref) == Unwrap(ref, 1)

(***************************************************************************)
(* The introspection payload (the text the endpoint answers with).  shape  *)
(* says how far the path data.__schema.types exists: the text is not JSON, *)
(* or one of the three keys is missing or null, or types is a list; types  *)
(* is that list.  A type entry has kind, name and fields; fields is a      *)
(* missing key, a null or a list of field entries, each with a name, a     *)
(* TypeReference and a list of arguments.                                  *)
(***************************************************************************)
Shapes ==
  {"not_json", "data_absent", "data_null", "schema_absent", "schema_null",
   "types_absent", "types_null", "types_list"}

Payload(shape, types) == [shape |-> shape, types |-> types]
FieldsOf(tag, items) == [tag |-> tag, items |-> items]

StartsWith(str, prefix) ==
  Len(str) >= Len(prefix) /\ SubSeq(str, 1, Len(prefix)) = prefix

\* Python's str() of a JSON value inside an f-string.
Str(v) == IF v \in {ABSENT, NULL} THEN "None" ELSE v

\* f"{arg['name']}: {get_type_name(arg['type'])}"
ArgStr(arg) ==
  IF arg.type.nodes = <<>> /\ arg.type.tail = "absent" THEN Raise("'type'")
  ELSE LET ty == get_type_name(arg.type)
       IN IF ty.ok THEN Ok(Str(arg.name) \o ": " \o ty.val) ELSE ty

RECURSIVE ArgStrs(_)
\* the generator of line 63, left to right, stopping at the first error
ArgStrs(args) ==
  IF args = <<>> THEN [ok |-> TRUE, val |-> <<>>, err |-> ""]
  ELSE LET hd == ArgStr(Head(args))
       IN IF ~hd.ok THEN [ok |-> FALSE, val |-> <<>>, err |-> hd.err]
          ELSE LET tl == ArgStrs(Tail(args))
               IN IF tl.ok THEN [tl EXCEPT !.val = <<hd.val>> \o @] ELSE tl

\* the body of "for f in fields": one entry of field_lines
FieldLine(f) ==
  LET field_type == get_type_name(f.type)
      args == ArgStrs(f.args)
  IN IF ~field_type.ok THEN field_type
     ELSE IF f.args = <<>> THEN Ok(Str(f.name) \o ": " \o field_type.val)
     ELSE IF ~args.ok THEN Raise(args.err)
     ELSE Ok(Str(f.name) \o "(" \o Join(args.val, ", ") \o "): " \o field_type.val)

RECURSIVE FieldLines(_)
FieldLines(fields) ==
  IF fields = <<>> THEN [ok |-> TRUE, val |-> <<>>, err |-> ""]
  ELSE LET hd == FieldLine(Head(fields))
       IN IF ~hd.ok THEN [ok |-> FALSE, val |-> <<>>, err |-> hd.err]
          ELSE LET tl == FieldLines(Tail(fields))
               IN IF tl.ok THEN [tl EXCEPT !.val = <<hd.val>> \o @] ELSE tl

\* t.get("kind") == "OBJECT" and t.get("name") and not t["name"].startswith("__")
KeepType(t) == t.kind = "OBJECT" /\ ~Falsy(t.name) /\ ~StartsWith(t.name, "__")

\* the text appended to lines for one kept type with at least one field line
Block(t, field_lines) == t.name \o " {\n  " \o Join(field_lines, "\n  ") \o "\n}}"

\* Mutant: a kept type with a single field line is dropped like an empty one.
TypeBlocksDropSingle(t) ==
  IF ~KeepType(t) THEN [ok |-> TRUE, val |-> <<>>, err |-> ""]
  ELSE IF t.fields.tag = "null"
       THEN [ok |-> FALSE, val |-> <<>>, err |-> "'NoneType' object is not subscriptable"]
  ELSE LET fields == IF t.fields.tag = "absent" THEN <<>>
                     ELSE Take(t.fields.items, FieldCutoff)
           field_lines == FieldLines(fields)
       IN IF ~field_lines.ok THEN field_lines
          ELSE IF Len(field_lines.val) > 1
               THEN [ok |-> TRUE, val |-> <<Block(t, field_lines.val)>>, err |-> ""]
          ELSE [ok |-> TRUE, val |-> <<>>, err |-> ""]

\* the body of "for t in types": what one type entry appends to lines
TypeBlocks(t) ==
  IF ~KeepType(t) THEN [ok |-> TRUE, val |-> <<>>, err |-> ""]
  ELSE IF t.fields.tag = "null"
       THEN [ok |-> FALSE, val |-> <<>>, err |-> "'NoneType' object is not subscriptable"]
  ELSE LET fields == IF t.fields.tag = "absent" THEN <<>>
                     ELSE Take(t.fields.items, FieldCutoff)
           field_lines == FieldLines(fields)
       IN IF ~field_lines.ok THEN field_lines
          ELSE IF field_lines.val # <<>>
               THEN [ok |-> TRUE, val |-> <<Block(t, field_lines.val)>>, err |-> ""]
          ELSE [ok |-> TRUE, val |-> <<>>, err |-> ""]

RECURSIVE AllBlocks(_)
AllBlocks(types) ==
  IF types = <<>> THEN [ok |-> TRUE, val |-> <<>>, err |-> ""]
  ELSE LET hd == TypeBlocks(Head(types))
       IN IF ~hd.ok THEN hd
          ELSE LET tl == AllBlocks(Tail(types))
               IN IF tl.ok THEN [tl EXCEPT !.val = hd.val \o @] ELSE tl

\* json.loads(text): whether the text decodes
JsonLoads(payload) ==
  IF payload.shape = "not_json" THEN Raise("Expecting value: line 1 column 1 (char 0)")
  ELSE Ok("")

\* Mutant: a payload without data.__schema.types is refused.
summarize_schema_strict(payload) ==
  IF ~JsonLoads(payload).ok THEN JsonLoads(payload)
  ELSE IF payload.shape # "types_list" THEN Raise("'types'")
  ELSE LET lines == AllBlocks(payload.types)
       IN IF lines.ok THEN Ok(Join(lines.val, "\n\n")) ELSE Raise(lines.err)

summarize_schema(payload) ==
  IF ~JsonLoads(payload).ok THEN JsonLoads(payload)
  ELSE IF payload.shape \in {"data_null", "schema_null"} THEN Raise(AttributeErrorGet)
  ELSE IF payload.shape = "types_null" THEN Raise("'NoneType' object is not iterable")
  ELSE LET types == IF payload.shape = "types_list" THEN payload.types ELSE <<>>
           lines == AllBlocks(types)
       IN IF lines.ok THEN Ok(Join(lines.val, "\n\n")) ELSE Raise(lines.err)

(***************************************************************************)
(* Inputs of the two helpers.                                              *)
(***************************************************************************)
TypeNameVals == {ABSENT, NULL, "", "String", "User"}
TypeRefInputs == TypeRefs(TypeNameVals, MaxDepth)

Named(name) == [nodes |-> <<name>>, tail |-> "null"]
NonNull(name) == [nodes |-> <<NULL, name>>, tail |-> "null"]
Field(name, type, args) == [name |-> name, type |-> type, args |-> args]

FieldLists ==
  { <<>>,
    <<Field("id", Named("ID"), <<>>)>>,
    <<Field("id", NonNull("ID"), <<>>),
      Field("user", Named("User"), <<[name |-> "id", type |-> NonNull("ID")]>>)>>,
    <<Field("tags", [nodes |-> <<NULL, NULL>>, tail |-> "absent"], <<>>)>>,
    <<Field("name", Named("String"), <<>>),
      Field("broken", [nodes |-> <<NULL>>, tail |-> "null"], <<>>)>>,
    <<Field("a", Named("ID"), <<>>), Field("b", Named("ID"), <<>>),
      Field("c", Named("ID"), <<>>), Field("d", Named("ID"), <<>>),
      Field("e", Named("ID"), <<>>), Field("f", Named("ID"), <<>>)>> }

FieldsOptions ==
  {FieldsOf("absent", <<>>), FieldsOf("null", <<>>)}
    \cup {FieldsOf("list", fl) : fl \in FieldLists}

TypeEntries ==
  [kind : {"OBJECT"}, name : {NULL, "__Type", "User", "Query"}, fields : FieldsOptions]
    \cup {[kind |-> "SCALAR", name |-> "User", fields |-> FieldsOf("null", <<>>)]}

SummarizeInputs ==
  {Payload(sh, <<>>) : sh \in Shapes \ {"types_list"}}
    \cup {Payload("types_list", ts) :
            ts \in UNION {[1..n -> TypeEntries] : n \in 0..MaxTypes}}

(***************************************************************************)
(* The POST /query handler.                                                *)
(***************************************************************************)
Prompts == {ABSENT, NULL, "", "list all users' names"}
Endpoints == {ABSENT, NULL, "", "http://gql.example/graphql"}

\* request.get_json(): None, or an object whose keys may be missing
Bodies == [none : {TRUE}, prompt : {ABSENT}, endpoint : {ABSENT}]
            \cup [none : {FALSE}, prompt : Prompts, endpoint : Endpoints]

\* What the language model may answer.
Candidates ==
  {"query { users { id name } }", "query { users { usrname } }", "query { users { id "}

\* What validate() may report for a document that parses.
ErrorLists ==
  { <<>>,
    <<"Cannot query field 'usrname' on type 'User'.">>,
    <<"Cannot query field 'usrname' on type 'User'.",
      "Unknown argument 'nme' on field 'Query.users'.">> }

\* The introspection answers of the endpoint.
SchemaPool ==
  {Payload(sh, <<>>) : sh \in Shapes \ {"types_list"}}
    \cup {Payload("types_list", ts) :
            ts \in { <<>>,
                     <<[kind |-> "OBJECT", name |-> "User",
                        fields |-> FieldsOf("list", <<Field("id", Named("ID"), <<>>)>>)]>>,
                     <<[kind |-> "OBJECT", name |-> "User",
                        fields |-> FieldsOf("list", <<>>)]>>,
                     <<[kind |-> "OBJECT", name |-> "Query",
                        fields |-> FieldsOf("list",
                          <<Field("broken", [nodes |-> <<NULL>>, tail |-> "null"], <<>>)>>)]>> }}

\* The endpoint's answers to a POST: no connection, an HTTP error status, a
\* body that is not JSON, or a JSON object with or without an "errors" array
\* (errors holds the value of each entry's "message" key).
HttpReply(kind, text, has_errors, errors) ==
  [kind |-> kind, text |-> text, has_errors |-> has_errors, errors |-> errors]

ExecReplies ==
  { HttpReply("connection_error", "", FALSE, <<>>),
    HttpReply("http_error", "Bad Request", FALSE, <<>>),
    HttpReply("not_json", "<html>", FALSE, <<>>),
    HttpReply("json", "{data}", FALSE, <<>>),
    HttpReply("json", "{errors}", TRUE, <<>>),
    HttpReply("json", "{errors}", TRUE, <<"field x unknown">>),
    HttpReply("json", "{errors}", TRUE, <<"field x unknown", ABSENT>>),
    HttpReply("json", "{data, errors}", TRUE, <<NULL>>) }

ConnectionErrorMsg == "HTTPConnectionPool: Max retries exceeded"
HttpErrorMsg == "500 Server Error: Internal Server Error for url"
ModelErrorMsg == "The server is overloaded or not ready yet."

RECURSIVE Count(_, _)
\* how often the character ch occurs in str
Count(str, ch) ==
  IF Len(str) = 0 THEN 0
  ELSE (IF SubSeq(str, 1, 1) = ch THEN 1 ELSE 0) + Count(SubSeq(str, 2, Len(str)), ch)

\* parse(query): a document with an unclosed selection set is a syntax error
Parses(query) == Len(query) > 0 /\ Count(query, "{") = Count(query, "}")

\* build_client_schema(schema_json["data"])
BuildClientSchema(schema_json) ==
  IF schema_json.shape = "data_absent" THEN Raise("'data'")
  ELSE IF schema_json.shape \in {"data_null", "schema_absent", "schema_null"}
       THEN Raise("Invalid or incomplete introspection result.")
  ELSE IF schema_json.shape = "types_absent" THEN Raise("'types'")
  ELSE IF schema_json.shape = "types_null"
       THEN Raise("'NoneType' object is not iterable")
  ELSE Ok("")

ErrResult(errs) == [ok |-> TRUE, val |-> errs, err |-> ""]
ErrRaise(msg) == [ok |-> FALSE, val |-> <<>>, err |-> msg]

\* validate_query_against_schema(query, schema_json), errs being what
\* validate() finds in a document that parses
validate_query_against_schema(query, schema_json, errs) ==
  IF ~BuildClientSchema(schema_json).ok THEN ErrRaise(BuildClientSchema(schema_json).err)
  ELSE IF ~Parses(query) THEN ErrRaise("Syntax Error: Expected Name, found <EOF>.")
  ELSE ErrResult(errs)

\* err.get("message", "Unknown error")
ErrorMessage(m) == IF m = ABSENT THEN "Unknown error" ELSE m

\* execute_graphql_query(query, endpoint), reply being the endpoint's answer
execute_graphql_query(reply) ==
  IF reply.kind = "connection_error" THEN Raise(ConnectionErrorMsg)
  ELSE IF reply.kind = "http_error" THEN Raise("HTTP Error:\n" \o reply.text)
  ELSE IF reply.kind = "not_json" THEN Raise("Expecting value: line 1 column 1 (char 0)")
  ELSE IF reply.has_errors
       THEN IF \E i \in 1..Len(reply.errors) : reply.errors[i] = NULL
            THEN Raise("sequence item 0: expected str instance, NoneType found")
            ELSE Raise("GraphQL Errors:\n" \o
                       Join([i \in 1..Len(reply.errors) |-> ErrorMessage(reply.errors[i])], "\n"))
  ELSE Ok(reply.text)

VARIABLES
  pc,                \* where the handler is
  body,              \* request.get_json()
  prompt, endpoint,
  full_schema_text,  \* the introspection answer
  schema_summary,
  gql_query, validation_errors, error_str,
  gql_query_retry, retry_validation_errors,
  response,          \* the HTTP status and JSON payload returned
  calls,             \* the calls issued so far, with what each returned or raised
  exec_reply,        \* the endpoint's answer to the execution POST
  schema_errors,     \* what validate() reports for each document against the fetched schema
  type_obj,    \* get_type_name: the TypeReference passed in
  tn_pos,      \* get_type_name: the position in the chain the loop has reached
  tn_result,   \* get_type_name: not yet returned, or what it returned or raised
  full_schema, \* summarize_schema: its argument
  sm_result    \* summarize_schema: not yet returned, or what it returned or raised

requestVars ==
  <<pc, body, prompt, endpoint, full_schema_text, schema_summary, gql_query,
    validation_errors, error_str, gql_query_retry, retry_validation_errors,
    response, calls, exec_reply, schema_errors>>

helperVars == <<type_obj, tn_pos, tn_result, full_schema, sm_result>>

vars == <<requestVars, helperVars>>

Pending == [ok |-> FALSE, val |-> "", err |-> "<pending>"]
Returned(r) == r # Pending
IdleRef == [nodes |-> <<>>, tail |-> "absent"]
NoReply == HttpReply("none", "", FALSE, <<>>)

\* The validator is a function of the document and the schema.
Verdicts ==
  {f \in [Candidates -> ErrorLists] : \A q \in Candidates : ~Parses(q) => f[q] = <<>>}
NoVerdicts == [q \in Candidates |-> <<>>]

NoResponse == [status |-> 0, body |-> [pending |-> TRUE]]
NoPayload == Payload("not_json", <<>>)

\* One entry of calls: the function called, its first argument, whether it
\* returned, the message of the exception it raised, the value it returned.
Call(op, arg, ok, err, ret) ==
  [op |-> op, arg |-> arg, ok |-> ok, err |-> err, ret |-> ret]

\* Mutant: the exception's message is replaced by a fixed text.
FailGeneric(e) == [status |-> 500, body |-> [error |-> "Internal Server Error"]]

\* except Exception as e: return jsonify({"error": str(e)}), 500
Fail(e) == [status |-> 500, body |-> [error |-> e]]

\* Mutant: the request is refused only when both fields are missing.
RequiredMissingBoth(p, e) == Falsy(p) /\ Falsy(e)

\* not prompt or not endpoint
RequiredMissing(p, e) == Falsy(p) \/ Falsy(e)

\* data = request.get_json() or {}; prompt = data.get("prompt"); ...
Receive ==
  /\ pc = "start"
  /\ LET data == IF body.none THEN [prompt |-> ABSENT, endpoint |-> ABSENT] ELSE body
     IN /\ prompt' = data.prompt
        /\ endpoint' = data.endpoint
        /\ IF RequiredMissing(data.prompt, data.endpoint)
           THEN /\ response' = [status |-> 400, body |->
                                  [error |-> "Both 'prompt' and 'endpoint' fields are required"]]
                /\ pc' = "REJECTED"
           ELSE /\ response' = response
                /\ pc' = "FETCHING"
  /\ UNCHANGED <<body, full_schema_text, schema_summary, gql_query, validation_errors,
                 error_str, gql_query_retry, retry_validation_errors, calls, exec_reply, schema_errors, helperVars>>

\* full_schema_text = get_graphql_schema(endpoint)
Fetch ==
  /\ pc = "FETCHING"
  /\ \/ \E msg \in {ConnectionErrorMsg, HttpErrorMsg} :
          /\ calls' = Append(calls, Call("get_graphql_schema", endpoint, FALSE, msg, ""))
          /\ response' = Fail(msg)
          /\ pc' = "FAILED"
          /\ UNCHANGED <<full_schema_text, schema_errors>>
     \/ \E text \in SchemaPool, verdicts \in Verdicts :
          /\ calls' = Append(calls, Call("get_graphql_schema", endpoint, TRUE, "", ""))
          /\ full_schema_text' = text
          /\ schema_errors' = verdicts
          /\ pc' = "SUMMARIZING"
          /\ UNCHANGED response
  /\ UNCHANGED <<body, prompt, endpoint, schema_summary, gql_query, validation_errors,
                 error_str, gql_query_retry, retry_validation_errors, exec_reply, helperVars>>

\* full_schema_json = json.loads(full_schema_text)
\* schema_summary = summarize_schema(full_schema_text)
Summarize ==
  /\ pc = "SUMMARIZING"
  /\ \E full_schema_json \in {JsonLoads(full_schema_text)},
        r \in {summarize_schema(full_schema_text)} :
       IF ~full_schema_json.ok
       THEN /\ calls' = Append(calls, Call("json.loads", "", FALSE, full_schema_json.err, ""))
            /\ response' = Fail(full_schema_json.err)
            /\ pc' = "FAILED"
            /\ UNCHANGED schema_summary
       ELSE /\ calls' = Append(calls, Call("summarize_schema", "", r.ok, r.err, r.val))
            /\ IF r.ok
               THEN /\ schema_summary' = r.val
                    /\ pc' = "SYNTHESIZING"
                    /\ UNCHANGED response
               ELSE /\ response' = Fail(r.err)
                    /\ pc' = "FAILED"
                    /\ UNCHANGED schema_summary
  /\ UNCHANGED <<body, prompt, endpoint, full_schema_text, gql_query, validation_errors,
                 error_str, gql_query_retry, retry_validation_errors, exec_reply, schema_errors, helperVars>>

\* gql_query = generate_graphql_query(prompt, schema_summary)
Synthesize ==
  /\ pc = "SYNTHESIZING"
  /\ \/ /\ calls' = Append(calls, Call("generate_graphql_query", prompt, FALSE, ModelErrorMsg, ""))
        /\ response' = Fail(ModelErrorMsg)
        /\ pc' = "FAILED"
        /\ UNCHANGED gql_query
     \/ \E q \in Candidates :
          /\ calls' = Append(calls, Call("generate_graphql_query", prompt, TRUE, "", q))
          /\ gql_query' = q
          /\ pc' = "VALIDATING"
          /\ UNCHANGED response
  /\ UNCHANGED <<body, prompt, endpoint, full_schema_text, schema_summary, validation_errors,
                 error_str, gql_query_retry, retry_validation_errors, exec_reply, schema_errors, helperVars>>

\* Mutant: the first candidate is executed whatever the validator said.
AfterValidationAlwaysExecute(errs) == "EXECUTING"

\* if validation_errors: ... (retry) else: execute
AfterValidation(errs) == IF errs # <<>> THEN "RETRYING" ELSE "EXECUTING"

\* validation_errors = validate_query_against_schema(gql_query, full_schema_json)
\* if validation_errors: error_str = "\n".join(validation_errors)
Validate ==
  /\ pc = "VALIDATING"
  /\ \E r \in {validate_query_against_schema(gql_query, full_schema_text,
                                                 schema_errors[gql_query])} :
          /\ calls' = Append(calls, Call("validate_query_against_schema", gql_query, r.ok, r.err, r.val))
          /\ IF r.ok
             THEN /\ validation_errors' = r.val
                  /\ error_str' = IF r.val # <<>> THEN Join(r.val, "\n") ELSE error_str
                  /\ pc' = AfterValidation(r.val)
                  /\ UNCHANGED response
             ELSE /\ response' = Fail(r.err)
                  /\ pc' = "FAILED"
                  /\ UNCHANGED <<validation_errors, error_str>>
  /\ UNCHANGED <<body, prompt, endpoint, full_schema_text, schema_summary, gql_query,
                 gql_query_retry, retry_validation_errors, exec_reply, schema_errors, helperVars>>

\* gql_query_retry = generate_query_with_feedback(prompt, schema_summary, error_str)
Retry ==
  /\ pc = "RETRYING"
  /\ \/ /\ calls' = Append(calls, Call("generate_query_with_feedback", error_str, FALSE, ModelErrorMsg, ""))
        /\ response' = Fail(ModelErrorMsg)
        /\ pc' = "FAILED"
        /\ UNCHANGED gql_query_retry
     \/ \E q \in Candidates :
          /\ calls' = Append(calls, Call("generate_query_with_feedback", error_str, TRUE, "", q))
          /\ gql_query_retry' = q
          /\ pc' = "REVALIDATING"
          /\ UNCHANGED response
  /\ UNCHANGED <<body, prompt, endpoint, full_schema_text, schema_summary, gql_query,
                 validation_errors, error_str, retry_validation_errors, exec_reply, schema_errors, helperVars>>

\* Mutant: the failure payload reports the first pass's errors.
ValidationFailureFirstErrors(retry_errs) ==
  [status |-> 400, body |->
     [prompt |-> prompt, graphql_query_attempted |-> gql_query,
      graphql_query_retry |-> gql_query_retry, validation_errors |-> validation_errors]]

\* return jsonify({"prompt": ..., "validation_errors": retry_validation_errors}), 400
ValidationFailure(retry_errs) ==
  [status |-> 400, body |->
     [prompt |-> prompt, graphql_query_attempted |-> gql_query,
      graphql_query_retry |-> gql_query_retry,
      validation_errors |-> retry_errs]]

\* Mutant: a retry that fails validation asks the model again.
AfterRevalidationLoop(errs) == IF errs # <<>> THEN "RETRYING" ELSE "EXECUTING_RETRY"

\* if retry_validation_errors: return ... 400, else execute the retry
AfterRevalidation(errs) == IF errs # <<>> THEN "FAILED" ELSE "EXECUTING_RETRY"

\* retry_validation_errors = validate_query_against_schema(gql_query_retry, full_schema_json)
Revalidate ==
  /\ pc = "REVALIDATING"
  /\ \E r \in {validate_query_against_schema(gql_query_retry, full_schema_text,
                                                 schema_errors[gql_query_retry])} :
          /\ calls' = Append(calls, Call("validate_query_against_schema", gql_query_retry, r.ok, r.err, r.val))
          /\ IF r.ok
             THEN /\ retry_validation_errors' = r.val
                  /\ pc' = AfterRevalidation(r.val)
                  /\ response' = IF pc' = "FAILED" THEN ValidationFailure(r.val) ELSE response
             ELSE /\ response' = Fail(r.err)
                  /\ pc' = "FAILED"
                  /\ UNCHANGED retry_validation_errors
  /\ UNCHANGED <<body, prompt, endpoint, full_schema_text, schema_summary, gql_query,
                 validation_errors, error_str, gql_query_retry, exec_reply, schema_errors, helperVars>>

\* Mutant: the retry's success payload carries the first candidate.
RetrySuccessFirstQuery(result) ==
  [status |-> 200, body |->
     [prompt |-> prompt, graphql_query |-> gql_query, result |-> result,
      retried_with_error_feedback |-> TRUE, original_validation_errors |-> error_str]]

\* return jsonify({... "retried_with_error_feedback": True, ...})
RetrySuccess(result) ==
  [status |-> 200, body |->
     [prompt |-> prompt, graphql_query |-> gql_query_retry, result |-> result,
      retried_with_error_feedback |-> TRUE, original_validation_errors |-> error_str]]

\* return jsonify({"prompt": prompt, "graphql_query": gql_query, "result": result})
FirstSuccess(result) ==
  [status |-> 200, body |->
     [prompt |-> prompt, graphql_query |-> gql_query, result |-> result]]

\* result = execute_graphql_query(gql_query_retry, endpoint)
ExecuteRetry ==
  /\ pc = "EXECUTING_RETRY"
  /\ \E reply \in ExecReplies :
       \E r \in {execute_graphql_query(reply)} :
          /\ calls' = Append(calls, Call("execute_graphql_query", gql_query_retry, r.ok, r.err, r.val))
          /\ exec_reply' = reply
          /\ response' = IF r.ok THEN RetrySuccess(r.val) ELSE Fail(r.err)
          /\ pc' = IF r.ok THEN "DONE" ELSE "FAILED"
  /\ UNCHANGED <<body, prompt, endpoint, full_schema_text, schema_summary, gql_query,
                 validation_errors, error_str, gql_query_retry, retry_validation_errors,
                 schema_errors, helperVars>>

\* result = execute_graphql_query(gql_query, endpoint)
ExecuteFirst ==
  /\ pc = "EXECUTING"
  /\ \E reply \in ExecReplies :
       \E r \in {execute_graphql_query(reply)} :
          /\ calls' = Append(calls, Call("execute_graphql_query", gql_query, r.ok, r.err, r.val))
          /\ exec_reply' = reply
          /\ response' = IF r.ok THEN FirstSuccess(r.val) ELSE Fail(r.err)
          /\ pc' = IF r.ok THEN "DONE" ELSE "FAILED"
  /\ UNCHANGED <<body, prompt, endpoint, full_schema_text, schema_summary, gql_query,
                 validation_errors, error_str, gql_query_retry, retry_validation_errors,
                 schema_errors, helperVars>>

Init ==
  /\ pc = "start"
  /\ body \in Bodies
  /\ prompt = ABSENT
  /\ endpoint = ABSENT
  /\ full_schema_text = NoPayload
  /\ schema_summary = ""
  /\ gql_query = ""
  /\ validation_errors = <<>>
  /\ error_str = ""
  /\ gql_query_retry = ""
  /\ retry_validation_errors = <<>>
  /\ response = NoResponse
  /\ calls = <<>>
  /\ exec_reply = NoReply
  /\ schema_errors = NoVerdicts
  /\ type_obj = IdleRef
  /\ tn_pos = 1
  /\ tn_result = Pending
  /\ full_schema = NoPayload
  /\ sm_result = Pending

Next ==
  \/ Receive
  \/ Fetch
  \/ Summarize
  \/ Synthesize
  \/ Validate
  \/ Retry
  \/ Revalidate
  \/ ExecuteRetry
  \/ ExecuteFirst

Spec == Init /\ [][Next]_vars

(***************************************************************************)
(* get_type_name applied to a TypeReference, one loop iteration at a time. *)
(***************************************************************************)
TypeNameInit ==
  /\ pc = "idle"
  /\ body = [none |-> TRUE, prompt |-> ABSENT, endpoint |-> ABSENT]
  /\ prompt = ABSENT
  /\ endpoint = ABSENT
  /\ full_schema_text = NoPayload
  /\ schema_summary = ""
  /\ gql_query = ""
  /\ validation_errors = <<>>
  /\ error_str = ""
  /\ gql_query_retry = ""
  /\ retry_validation_errors = <<>>
  /\ response = NoResponse
  /\ calls = <<>>
  /\ exec_reply = NoReply
  /\ schema_errors = NoVerdicts
  /\ type_obj \in TypeRefInputs
  /\ tn_pos = 1
  /\ tn_result = Pending
  /\ full_schema = NoPayload
  /\ sm_result = Pending

\* type_obj = type_obj.get("ofType", {})
TypeNameLoop ==
  /\ ~Returned(tn_result)
  /\ LoopCond(type_obj, tn_pos)
  /\ tn_pos' = tn_pos + 1
  /\ UNCHANGED <<type_obj, tn_result, full_schema, sm_result, requestVars>>

TypeNameReturn ==
  /\ ~Returned(tn_result)
  /\ ~LoopCond(type_obj, tn_pos)
  /\ tn_result' = ReturnName(type_obj, tn_pos)
  /\ UNCHANGED <<type_obj, tn_pos, full_schema, sm_result, requestVars>>

TypeNameNext == TypeNameLoop \/ TypeNameReturn

TypeNameSpec == TypeNameInit /\ [][TypeNameNext]_vars

(***************************************************************************)
(* summarize_schema applied to an introspection payload.                   *)
(***************************************************************************)
SummarizeInit ==
  /\ pc = "idle"
  /\ body = [none |-> TRUE, prompt |-> ABSENT, endpoint |-> ABSENT]
  /\ prompt = ABSENT
  /\ endpoint = ABSENT
  /\ full_schema_text = NoPayload
  /\ schema_summary = ""
  /\ gql_query = ""
  /\ validation_errors = <<>>
  /\ error_str = ""
  /\ gql_query_retry = ""
  /\ retry_validation_errors = <<>>
  /\ response = NoResponse
  /\ calls = <<>>
  /\ exec_reply = NoReply
  /\ schema_errors = NoVerdicts
  /\ type_obj = IdleRef
  /\ tn_pos = 1
  /\ tn_result = Pending
  /\ full_schema \in SummarizeInputs
  /\ sm_result = Pending

SummarizeCall ==
  /\ ~Returned(sm_result)
  /\ sm_result' = summarize_schema(full_schema)
  /\ UNCHANGED <<type_obj, tn_pos, tn_result, full_schema, requestVars>>

SummarizeNext == SummarizeCall

SummarizeSpec == SummarizeInit /\ [][SummarizeNext]_vars

(***************************************************************************)
(* Properties.                                                             *)
(***************************************************************************)
CallsOf(op) == Cardinality({i \in 1..Len(calls) : calls[i].op = op})
Executed == CallsOf("execute_graphql_query") > 0
Retried == CallsOf("generate_query_with_feedback") > 0
LastCall == calls[Len(calls)]

\* text contains sub
Contains(text, sub) ==
  \E i \in 1..(Len(text) - Len(sub) + 1) : SubSeq(text, i, i + Len(sub) - 1) = sub

\* The summary has a block whose header line is "<name> {".
HasHeader(summary, name) ==
  \/ StartsWith(summary, name \o " {\n")
  \/ Contains(summary, "\n\n" \o name \o " {\n")

\* C1: one request issues at most one generate_graphql_query call and at
\* most one generate_query_with_feedback call, so at most two completion
\* calls, whatever the validator returns.
C1_AtMostTwoCompletionCalls ==
  /\ CallsOf("generate_graphql_query") <= 1
  /\ CallsOf("generate_query_with_feedback") <= 1

\* Both candidates were refused by the validator and both completion calls were made.
C1_Witness ==
  /\ pc = "FAILED"
  /\ validation_errors # <<>>
  /\ retry_validation_errors # <<>>
  /\ CallsOf("generate_graphql_query") + CallsOf("generate_query_with_feedback") = 2

\* C2: every call of execute_graphql_query comes right after a call of
\* validate_query_against_schema that returned an empty error list for the
\* same query text, and that text is the candidate the last completion call
\* produced.
C2_ExecutesOnlyValidated ==
  \A i \in 1..Len(calls) :
    calls[i].op = "execute_graphql_query" =>
      /\ i > 2
      /\ calls[i - 1].op = "validate_query_against_schema"
      /\ calls[i - 1].ok
      /\ calls[i - 1].ret = <<>>
      /\ calls[i - 1].arg = calls[i].arg
      /\ calls[i - 2].op \in {"generate_graphql_query", "generate_query_with_feedback"}
      /\ calls[i - 2].ret = calls[i].arg

\* The executor ran on a retry candidate after the first candidate was refused.
C2_Witness ==
  /\ Executed
  /\ validation_errors # <<>>
  /\ LastCall.arg = gql_query_retry

\* C3: when both validation passes return a non-empty error list the request
\* ends FAILED with HTTP 400 and the payload prompt, graphql_query_attempted,
\* graphql_query_retry, validation_errors (the retry's list), and the
\* executor is never called.
C3_BothInvalidGives400 ==
  (validation_errors # <<>> /\ retry_validation_errors # <<>>) =>
    /\ pc = "FAILED"
    /\ response.status = 400
    /\ response.body =
         [prompt |-> prompt, graphql_query_attempted |-> gql_query,
          graphql_query_retry |-> gql_query_retry,
          validation_errors |-> retry_validation_errors]
    /\ ~Executed

\* Both passes failed, with different error lists.
C3_Witness ==
  /\ validation_errors # <<>>
  /\ retry_validation_errors # <<>>
  /\ validation_errors # retry_validation_errors
  /\ response.status = 400

\* C4: a first candidate that does not parse (against a schema that builds)
\* makes the validator return a list with exactly one entry, and the request
\* goes to RETRYING instead of ending with HTTP 500.
C4_ParseFailureIsValidationError ==
  ( /\ Len(calls) = 4
    /\ LastCall.op = "validate_query_against_schema"
    /\ ~Parses(gql_query)
    /\ BuildClientSchema(full_schema_text).ok ) =>
      /\ LastCall.ok
      /\ Len(LastCall.ret) = 1
      /\ pc = "RETRYING"
      /\ response.status # 500

\* C5: an HTTP 200 response carries retried_with_error_feedback = true and
\* original_validation_errors (the first pass's errors joined by line
\* breaks) exactly when a feedback retry occurred, and then graphql_query is
\* the retry candidate; otherwise it holds only prompt, graphql_query (the
\* first candidate) and result.
C5_SuccessPayload ==
  response.status = 200 =>
    IF Retried
    THEN response.body =
           [prompt |-> prompt, graphql_query |-> gql_query_retry,
            result |-> exec_reply.text, retried_with_error_feedback |-> TRUE,
            original_validation_errors |-> Join(validation_errors, "\n")]
    ELSE response.body =
           [prompt |-> prompt, graphql_query |-> gql_query, result |-> exec_reply.text]

\* A success after a retry whose first pass reported two errors.
C5_Witness ==
  /\ response.status = 200
  /\ Retried
  /\ Len(validation_errors) = 2
  /\ gql_query_retry # gql_query

\* C6: a call that raises is the last call of the request, and the request
\* ends FAILED with HTTP 500 and {"error": <the message>}; an HTTP-200
\* execution answer with an errors array is such a failure.
C6_FailuresGive500 ==
  /\ \A i \in 1..Len(calls) :
       ~calls[i].ok =>
         /\ i = Len(calls)
         /\ pc = "FAILED"
         /\ response = [status |-> 500, body |-> [error |-> calls[i].err]]
  /\ exec_reply.has_errors => (pc = "FAILED" /\ response.status = 500 /\ ~LastCall.ok)
  /\ exec_reply = HttpReply("json", "{errors}", TRUE, <<"field x unknown">>) =>
       response.body = [error |-> "GraphQL Errors:\nfield x unknown"]

\* The executor got an HTTP-200 answer with an errors array.
C6_Witness ==
  /\ exec_reply = HttpReply("json", "{errors}", TRUE, <<"field x unknown">>)
  /\ response.status = 500

\* C7: a request without a body, or whose prompt or endpoint is missing,
\* null or empty, is answered with HTTP 400 and the fixed error text, and no
\* call of the pipeline is issued for it.
C7_MissingFieldRejected ==
  (pc # "start" /\ (body.none \/ Falsy(body.prompt) \/ Falsy(body.endpoint))) =>
    /\ pc = "REJECTED"
    /\ response = [status |-> 400, body |->
                     [error |-> "Both 'prompt' and 'endpoint' fields are required"]]
    /\ calls = <<>>

\* A request with an endpoint and no prompt was refused.
C7_Witness ==
  /\ pc = "REJECTED"
  /\ ~body.none
  /\ body.prompt = ABSENT
  /\ ~Falsy(body.endpoint)

\* The names a kept type entry of the payload can have.
KeptNames == {t.name : t \in {e \in TypeEntries : KeepType(e)}}
TypesOf(payload) ==
  IF payload.shape = "types_list"
  THEN {payload.types[i] : i \in 1..Len(payload.types)} ELSE {}
HasFields(t) == t.fields.tag = "list" /\ t.fields.items # <<>>

\* C8 as stated: in the summary returned, every type entry of kind OBJECT
\* with a name not starting with "__" has a block header, also when its
\* field list is empty.
C8_EveryObjectTypeHasHeader ==
  (Returned(sm_result) /\ sm_result.ok) =>
    \A t \in TypesOf(full_schema) : KeepType(t) => HasHeader(sm_result.val, t.name)

\* C8 amended: in the summary returned, a name is a block header exactly
\* when some type entry of kind OBJECT with that name (not starting with
\* "__") has at least one field; entries with an empty or missing field list
\* get no block.
C8_ObjectTypeWithFieldsHasHeader ==
  (Returned(sm_result) /\ sm_result.ok) =>
    \A name \in KeptNames :
      HasHeader(sm_result.val, name) <=>
        \E t \in TypesOf(full_schema) : KeepType(t) /\ t.name = name /\ HasFields(t)

\* A summary of a payload with one type that has fields and one that has none.
C8_Witness ==
  /\ Returned(sm_result) /\ sm_result.ok
  /\ \E t \in TypesOf(full_schema) : KeepType(t) /\ t.name = "User" /\ HasFields(t)
  /\ \E t \in TypesOf(full_schema) : KeepType(t) /\ t.name = "Query" /\ ~HasFields(t)
  /\ HasHeader(sm_result.val, "User")

\* C9: get_type_name of a chain of at least one node in which every name is
\* absent or null returns "Unknown" and raises nothing, whether the chain
\* ends in a missing or in a null ofType.
C9_UnnamedChainGivesUnknown ==
  ( /\ Returned(tn_result)
    /\ Len(type_obj.nodes) > 0
    /\ \A i \in 1..Len(type_obj.nodes) : type_obj.nodes[i] \in {ABSENT, NULL} ) =>
      (tn_result.ok /\ tn_result.val = "Unknown")

MissingShapes ==
  {"data_absent", "data_null", "schema_absent", "schema_null", "types_absent", "types_null"}
AbsentShapes == {"data_absent", "schema_absent", "types_absent"}
Summarized == Len(calls) >= 2

\* C10 as stated: for a payload without data.__schema.types the summarizer
\* raises, and the request fails there with no completion call.
C10_MissingTypesFailsSummarizing ==
  (Summarized /\ full_schema_text.shape \in MissingShapes) =>
    /\ ~calls[2].ok
    /\ pc = "FAILED"
    /\ CallsOf("generate_graphql_query") = 0

\* C10 amended: when data, __schema or types is null the summarizer raises
\* and the request fails there with no completion call; when one of these
\* keys is absent the summarizer returns the empty summary and the request
\* goes on to the completion call.
C10_AbsentKeysGiveEmptySummary ==
  /\ (Summarized /\ full_schema_text.shape \in MissingShapes \ AbsentShapes) =>
       /\ ~calls[2].ok
       /\ pc = "FAILED"
       /\ response.status = 500
       /\ CallsOf("generate_graphql_query") = 0
  /\ (Summarized /\ full_schema_text.shape \in AbsentShapes) =>
       /\ calls[2].op = "summarize_schema"
       /\ calls[2].ok
       /\ schema_summary = ""
       /\ Len(calls) = 2 => pc = "SYNTHESIZING"

\* The completion call was made for a payload that has no "data" key.
C10_Witness ==
  /\ full_schema_text.shape = "data_absent"
  /\ CallsOf("generate_graphql_query") = 1
  /\ LastCall.ok

====
